---- MODULE Spec2Model ----
(***************************************************************************)
(* Model of mushroom/utils/replay_memory.py: the uniform ReplayMemory      *)
(* (six bounded queue.Queue objects plus a cursor), the SumTree (flat      *)
(* array binary tree of priorities with slot-aligned data list) and the    *)
(* PrioritizedReplayMemory facade on top of the SumTree.                   *)
(*                                                                         *)
(* Priorities are modelled as integers (exact in float64 in this range).   *)
(* Query values s are modelled as rationals t/scale, so that values        *)
(* strictly between two integer priorities are covered.                    *)
(***************************************************************************)
EXTENDS Integers, Sequences, FiniteSets

\* ---------------------------------------------------------------- bounds
MaxCap == 3          \* largest max_size explored
NumRecords == 2      \* distinct transition records offered by the producer
MaxBatch == 2        \* longest dataset passed to one add
MaxIdx == 2          \* longest index list passed to one update
MaxP == 2            \* largest priority passed to add
MaxNewP == 1         \* largest priority passed to SumTree.update
MaxAdds == 4         \* cap on the number of records added to one tree
MaxAlpha == 2        \* largest priority exponent alpha
MaxN == 2            \* largest n_samples passed to get
MaxErr == 1          \* largest |error| passed to update
MaxBeta == 1         \* largest value returned by beta()
MaxInit == 1         \* largest initial_size
RecursionLimit == 6  \* nested _propagate frames before RecursionError
HalfUnits == 2       \* resolution of s: SumTree.get is passed s = t / HalfUnits

\* epsilon=.01, the default of PrioritizedReplayMemory.__init__: priorities
\* and errors are counted in units of epsilon
Epsilon == 1

\* None (the initial content of SumTree._data) is 0, records are 1..NumRecords
None == 0
Records == 1..NumRecords
Fields == 1..6

\* dataset[i][f]: field f of record r
FieldOf(r, f) == <<r, f>>

\* all sequences over S of length lo..hi
SeqsOf(S, lo, hi) == UNION {[1..n -> S] : n \in lo..hi}

Min(a, b) == IF a < b THEN a ELSE b

VARIABLES
    \* ReplayMemory
    rm_initial_size,\* self._initial_size
    rm_max_size,    \* self._max_size
    rm_idx,         \* self._idx
    rm_full,        \* self._full
    rm_queue,       \* the six queue.Queue objects, by field: [Fields -> Seq]
    rm_pc,          \* "idle", or "blocked" inside queue.Queue.put
    rm_hist,        \* ghost: records passed to add since construction/reset
    rm_added,       \* ghost: records whose loop body in add has completed
    \* SumTree (owned by PrioritizedReplayMemory as self._tree)
    st_max_size,    \* self._max_size
    st_tree,        \* self._tree, indices 0..2*max_size-2
    st_data,        \* self._data, indices 0..max_size-1
    st_idx,         \* self._idx
    st_full,        \* self._full
    st_hist,        \* ghost: <<record, priority>> of every add, while logged
    st_k,           \* ghost: number of records added
    \* PrioritizedReplayMemory
    per_initial_size, \* self._initial_size
    per_alpha,      \* self._alpha
    per_epsilon,    \* self._epsilon
    per_batch,      \* ghost: idxs of the most recent get that returned a batch
    \* ghost: the last call made: its name, the arguments the properties
    \* refer to, the exception it raised and its result
    op

rm_vars == <<rm_initial_size, rm_max_size, rm_idx, rm_full, rm_queue, rm_pc,
             rm_hist, rm_added>>
st_vars == <<st_max_size, st_tree, st_data, st_idx, st_full, st_hist, st_k>>
per_vars == <<per_initial_size, per_alpha, per_epsilon, per_batch>>

\* the record kept in op
Call(name, arg, err, out) ==
    [name |-> name, arg |-> arg, err |-> err, out |-> out]
NoCall == Call("none", <<>>, "none", <<>>)
vars == <<rm_vars, st_vars, per_vars, op>>

\* ======================================================== ReplayMemory ==

\* ReplayMemory.size
RM_size(idx, full, max_size) == IF ~full THEN idx ELSE max_size

\* queue.Queue.put(item) with block=True, timeout=None: waits for a free
\* slot while maxsize > 0 and qsize() >= maxsize
QueuePutBlocks(q, maxsize) == maxsize > 0 /\ Len(q) >= maxsize

\* the six put calls of one loop iteration, in order; the first one that
\* finds its queue full never returns
RECURSIVE RM_put_fields(_, _, _, _)
RM_put_fields(S, r, f, maxsize) ==
    IF f > 6 THEN S
    ELSE IF QueuePutBlocks(S.queue[f], maxsize)
         THEN [S EXCEPT !.pc = "blocked"]
         ELSE RM_put_fields(
                 [S EXCEPT !.queue[f] = Append(@, FieldOf(r, f))],
                 r, f + 1, maxsize)

\* the cursor update closing one loop iteration of ReplayMemory.add
RM_advance(S, maxsize) ==
    LET i == S.idx + 1
    IN  IF i = maxsize
        THEN [S EXCEPT !.idx = 0, !.full = TRUE, !.added = @ + 1]
        ELSE [S EXCEPT !.idx = i, !.added = @ + 1]

\* ReplayMemory.add(dataset)
RECURSIVE RM_add(_, _, _)
RM_add(S, dataset, maxsize) ==
    IF dataset = <<>> \/ S.pc = "blocked" THEN S
    ELSE LET S1 == RM_put_fields(S, Head(dataset), 1, maxsize)
         IN  IF S1.pc = "blocked" THEN S1
             ELSE RM_add(RM_advance(S1, maxsize), Tail(dataset), maxsize)

\* a draw with replacement (replace=True)
RandomChoiceNoReplaceMut(a, n) ==
    IF a <= 0 THEN {} ELSE [1..n -> 0..(a - 1)]

\* np.random.choice(a, size=n, replace=False) for an int a: the draws
\* it can return, as sequences of positions; empty when it raises ValueError
Injective(d) == \A i, j \in DOMAIN d : i # j => d[i] # d[j]
RandomChoiceNoReplace(a, n) ==
    IF a <= 0 \/ n > a THEN {}
    ELSE {d \in [1..n -> 0..(a - 1)] : Injective(d)}

\* a read that takes the item off the queue: self._states.get()
QueueItemMut(q, i) == [item |-> Head(q), queue |-> Tail(q)]

\* self._states.queue[i]: the item at position i of the underlying deque,
\* and the queue afterwards
QueueItem(q, i) == [item |-> q[i + 1], queue |-> q]

\* the reads of one field by the gather loop of ReplayMemory.get: the items
\* in draw order and the queue afterwards
RECURSIVE RM_read_field(_, _)
RM_read_field(q, draw) ==
    IF draw = <<>> THEN [items |-> <<>>, queue |-> q]
    ELSE LET r == QueueItem(q, Head(draw))
             rest == RM_read_field(r.queue, Tail(draw))
         IN  [items |-> <<r.item>> \o rest.items, queue |-> rest.queue]

\* the gather loop of ReplayMemory.get for one draw
RM_gather(queue, draw) ==
    [f \in Fields |-> RM_read_field(queue[f], draw).items]

\* the six queues after the gather loop
RM_after_get(queue, draw) ==
    [f \in Fields |-> RM_read_field(queue[f], draw).queue]

\* ReplayMemory.initialized
RM_initialized(size, initial_size) == size > initial_size

RM_self == [idx |-> rm_idx, full |-> rm_full, queue |-> rm_queue,
            pc |-> rm_pc, added |-> rm_added]

RM_init_fields ==
    /\ rm_idx = 0
    /\ rm_full = FALSE
    /\ rm_queue = [f \in Fields |-> <<>>]
    /\ rm_pc = "idle"
    /\ rm_hist = <<>>
    /\ rm_added = 0

RMAdd ==
    /\ rm_pc = "idle"
    /\ \E dataset \in SeqsOf(Records, 1, MaxBatch) :
         \E S \in {RM_add(RM_self, dataset, rm_max_size)} :
             /\ rm_idx' = S.idx
             /\ rm_full' = S.full
             /\ rm_queue' = S.queue
             /\ rm_pc' = S.pc
             /\ rm_added' = S.added
             /\ rm_hist' = rm_hist \o dataset
             /\ op' = Call("rm_add", dataset, "none", <<>>)
    /\ UNCHANGED <<rm_initial_size, rm_max_size, st_vars, per_vars>>

RMGet ==
    /\ rm_pc = "idle"
    /\ \E n \in 1..MaxN :
         LET size  == RM_size(rm_idx, rm_full, rm_max_size)
             draws == RandomChoiceNoReplace(size, n)
         IN  IF draws = {}
             THEN /\ op' = Call("rm_get", <<n>>, "ValueError", <<>>)
                  /\ rm_queue' = rm_queue
             ELSE \E d \in draws :
                    /\ op' = Call("rm_get", <<n>>, "none",
                                  <<d, RM_gather(rm_queue, d)>>)
                    /\ rm_queue' = RM_after_get(rm_queue, d)
    /\ UNCHANGED <<rm_initial_size, rm_max_size, rm_idx, rm_full, rm_pc,
                   rm_hist, rm_added, st_vars, per_vars>>

\* ReplayMemory.reset()
RMReset ==
    /\ rm_pc = "idle"
    /\ rm_idx' = 0
    /\ rm_full' = FALSE
    /\ rm_queue' = [f \in Fields |-> <<>>]
    /\ rm_hist' = <<>>
    /\ rm_added' = 0
    /\ op' = Call("rm_reset", <<>>, "none", <<>>)
    /\ UNCHANGED <<rm_initial_size, rm_max_size, rm_pc, st_vars, per_vars>>

\* ============================================================= SumTree ==

\* len(self._tree) = 2 * max_size - 1
TreeLen(max_size) == 2 * max_size - 1

\* numpy / list indexing a[i] on a container of length n: negative i counts
\* from the end; -1 stands for IndexError
NpIndex(i, n) ==
    IF 0 <= i /\ i < n THEN i
    ELSE IF i < 0 /\ -n <= i THEN i + n
    ELSE -1

\* SumTree.__init__
SumTree_new(max_size) ==
    [tree |-> [i \in 0..(TreeLen(max_size) - 1) |-> 0],
     data |-> [i \in 0..(max_size - 1) |-> None],
     idx  |-> 0,
     full |-> FALSE,
     err  |-> "none"]

\* SumTree.size
SumTree_size(idx, full, max_size) == IF ~full THEN idx ELSE max_size

\* SumTree.total_p
SumTree_total_p(tree) == tree[0]

\* a propagation that carries the new priority instead of the difference
DeltaMut(p, old) == p

\* delta = p - self._tree[i]
Delta(p, old) == p - old

\* the parent computed without the "- 1"
ParentIdxMut(idx) == idx \div 2

\* parent_idx = (idx - 1) // 2   (Python floor division)
ParentIdx(idx) == (idx - 1) \div 2

\* SumTree._propagate(delta, idx); depth is the number of _propagate frames
\* still available before the interpreter raises RecursionError
RECURSIVE SumTree_propagate(_, _, _, _, _)
SumTree_propagate(T, delta, idx, max_size, depth) ==
    IF depth = 0 THEN [T EXCEPT !.err = "RecursionError"]
    ELSE LET parent_idx == ParentIdx(idx)
             j == NpIndex(parent_idx, TreeLen(max_size))
         IN  IF j = -1 THEN [T EXCEPT !.err = "IndexError"]
             ELSE LET T1 == [T EXCEPT !.tree[j] = @ + delta]
                  IN  IF parent_idx # 0
                      THEN SumTree_propagate(T1, delta, parent_idx, max_size,
                                             depth - 1)
                      ELSE T1

\* SumTree.update(idx, priorities): zip stops at the shorter list; an
\* exception leaves the entries already written in place
RECURSIVE SumTree_update(_, _, _, _)
SumTree_update(T, idx, priorities, max_size) ==
    IF idx = <<>> \/ priorities = <<>> \/ T.err # "none" THEN T
    ELSE LET i == Head(idx)
             p == Head(priorities)
             j == NpIndex(i, TreeLen(max_size))
         IN  IF j = -1 THEN [T EXCEPT !.err = "IndexError"]
             ELSE LET delta == Delta(p, T.tree[j])
                      T1 == [T EXCEPT !.tree[j] = p]
                      T2 == SumTree_propagate(T1, delta, i, max_size,
                                              RecursionLimit)
                  IN  SumTree_update(T2, Tail(idx), Tail(priorities),
                                     max_size)

\* the leaf index computed without the "- 1"
LeafOfSlotMut(slot, max_size) == slot + max_size

\* idx = self._idx + self._max_size - 1
LeafOfSlot(slot, max_size) == slot + max_size - 1

\* a wraparound that forgets to set the full flag
SumTree_advanceMut(T, max_size) ==
    LET i == T.idx + 1
    IN  IF i = max_size THEN [T EXCEPT !.idx = 0] ELSE [T EXCEPT !.idx = i]

\* the cursor update closing one loop iteration of SumTree.add
SumTree_advance(T, max_size) ==
    LET i == T.idx + 1
    IN  IF i = max_size
        THEN [T EXCEPT !.idx = 0, !.full = TRUE]
        ELSE [T EXCEPT !.idx = i]

\* SumTree.add(dataset, priority)
RECURSIVE SumTree_add(_, _, _, _)
SumTree_add(T, dataset, priority, max_size) ==
    IF dataset = <<>> \/ priority = <<>> \/ T.err # "none" THEN T
    ELSE LET idx == LeafOfSlot(T.idx, max_size)
             T1 == [T EXCEPT !.data[T.idx] = Head(dataset)]
             T2 == SumTree_update(T1, <<idx>>, <<Head(priority)>>, max_size)
         IN  IF T2.err # "none" THEN T2
             ELSE SumTree_add(SumTree_advance(T2, max_size), Tail(dataset),
                              Tail(priority), max_size)

\* SumTree._retrieve(s, idx) with s = t / scale: the set of leaves the
\* descent can end in (np.random.choice([left, right]) may return either)
RECURSIVE SumTree_retrieve(_, _, _, _, _)
SumTree_retrieve(tree, n, t, scale, idx) ==
    LET left  == 2 * idx + 1
        right == left + 1
    IN  IF left >= n THEN {idx}
        ELSE IF tree[left] = tree[right]
        THEN SumTree_retrieve(tree, n, t, scale, left)
               \cup SumTree_retrieve(tree, n, t, scale, right)
        ELSE IF t <= scale * tree[left]
        THEN SumTree_retrieve(tree, n, t, scale, left)
        ELSE SumTree_retrieve(tree, n, t - scale * tree[left], scale, right)

\* data_idx = idx - self._max_size + 1
SlotOfLeaf(idx, max_size) == idx - max_size + 1

\* SumTree.get(s): the triples (idx, self._tree[idx], self._data[data_idx])
\* it can return
SumTree_get(tree, data, max_size, t, scale) ==
    {<<idx, tree[idx], data[SlotOfLeaf(idx, max_size)]>> :
        idx \in SumTree_retrieve(tree, TreeLen(max_size), t, scale, 0)}

\* a slice one entry too long: self._tree[-self._max_size - 1:].max()
SumTree_max_pMut(tree, max_size) ==
    LET n == TreeLen(max_size)
        tail == {tree[i] : i \in (n - max_size - 1)..(n - 1)}
    IN  CHOOSE m \in tail : \A x \in tail : x <= m

\* SumTree.max_p: self._tree[-self._max_size:].max()
SumTree_max_p(tree, max_size) ==
    LET n == TreeLen(max_size)
        tail == {tree[i] : i \in (n - max_size)..(n - 1)}
    IN  CHOOSE m \in tail : \A x \in tail : x <= m

ST_self == [tree |-> st_tree, data |-> st_data, idx |-> st_idx,
            full |-> st_full, err |-> "none"]

ST_init_fields ==
    LET T == SumTree_new(st_max_size)
    IN  /\ st_tree = T.tree
        /\ st_data = T.data
        /\ st_idx = T.idx
        /\ st_full = T.full
        /\ st_hist = <<>>
        /\ st_k = 0

\* the leaf indices max_size-1 .. 2*max_size-2
Leaves(max_size) == (max_size - 1)..(2 * max_size - 2)
Internal(max_size) == 0..(max_size - 2)

ST_assign(T) ==
    /\ st_tree' = T.tree
    /\ st_data' = T.data
    /\ st_idx' = T.idx
    /\ st_full' = T.full

\* SumTree.add with non-negative priorities (name: the method called, which
\* is SumTree.add itself or PrioritizedReplayMemory.add delegating to it)
TreeAddOf(name, logged, recs, prios) ==
    /\ \E n \in 1..MaxBatch :
         /\ st_k + n <= MaxAdds
         /\ \E dataset \in [1..n -> recs], priority \in [1..n -> prios] :
              \E T \in {SumTree_add(ST_self, dataset, priority, st_max_size)} :
                  /\ ST_assign(T)
                  /\ st_k' = st_k + n
                  /\ st_hist' = IF logged
                                THEN st_hist \o [j \in 1..n |->
                                                   <<dataset[j], priority[j]>>]
                                ELSE st_hist
                  /\ op' = Call(name, <<dataset, priority>>, T.err, <<>>)
    /\ UNCHANGED <<st_max_size, rm_vars, per_vars>>

\* add with non-negative priorities
TreeAdd(name, logged, recs) == TreeAddOf(name, logged, recs, 0..MaxP)

\* where the content of the records plays no part, the producer offers one
STAdd == TreeAdd("st_add", FALSE, {1})
STAddLogged == TreeAdd("st_add", TRUE, Records)

\* SumTree.update with leaf indices and non-negative priorities
STUpdate ==
    /\ \E n \in 1..MaxIdx :
         \E idx \in [1..n -> Leaves(st_max_size)],
            priorities \in [1..n -> 0..MaxNewP] :
              \E T \in {SumTree_update(ST_self, idx, priorities, st_max_size)} :
                  /\ ST_assign(T)
                  /\ op' = Call("st_update", <<idx, priorities>>, T.err, <<>>)
    /\ UNCHANGED <<st_max_size, st_hist, st_k, rm_vars, per_vars>>

\* tree[lo] + ... + tree[hi]
RECURSIVE SumRange(_, _, _)
SumRange(tree, lo, hi) ==
    IF lo > hi THEN 0 ELSE tree[lo] + SumRange(tree, lo + 1, hi)

\* every internal node holds the sum of its two children and the root the
\* sum of the leaves
SumInvariant(tree, max_size) ==
    /\ \A i \in Internal(max_size) :
           tree[i] = tree[2 * i + 1] + tree[2 * i + 2]
    /\ SumTree_total_p(tree)
         = SumRange(tree, max_size - 1, 2 * max_size - 2)

\* SumTree.update([i], [p]) with one index i that is not a leaf index: the
\* root, an internal node, a negative index or an index past the array;
\* the first such call on a tree whose sums are still right
STUpdateBad ==
    /\ SumInvariant(st_tree, st_max_size)
    /\ \E i \in ((-2 * st_max_size)..(2 * st_max_size))
                  \ Leaves(st_max_size),
          p \in 0..MaxNewP :
            \E T \in {SumTree_update(ST_self, <<i>>, <<p>>, st_max_size)} :
                /\ ST_assign(T)
                /\ op' = Call("st_update", <<(<<i>>), <<p>>>>, T.err, <<>>)
    /\ UNCHANGED <<st_max_size, st_hist, st_k, rm_vars, per_vars>>

\* SumTree.get(s) for s in [0, total_p)
STGet ==
    /\ \E t \in 0..(HalfUnits * SumTree_total_p(st_tree) - 1) :
         \E r \in SumTree_get(st_tree, st_data, st_max_size, t, HalfUnits) :
            op' = Call("st_get", <<t>>, "none", r)
    /\ UNCHANGED <<st_vars, rm_vars, per_vars>>

\* ============================================= PrioritizedReplayMemory ==

Abs(x) == IF x < 0 THEN -x ELSE x

\* x ** a for a natural exponent (0 ** 0 is 1, as in Python)
RECURSIVE Pow(_, _)
Pow(x, a) == IF a = 0 THEN 1 ELSE x * Pow(x, a - 1)

\* PrioritizedReplayMemory._get_priority(error), elementwise
PER_get_priority(error, epsilon, alpha) ==
    [j \in DOMAIN error |-> Pow(Abs(error[j]) + epsilon, alpha)]

\* the values np.random.uniform(a, b) can return for segment i of n, as
\* numerators over the denominator HalfUnits * n: [a, b), or a when a = b
PER_samples(total_p, n, i) ==
    IF total_p <= 0 THEN {HalfUnits * i * total_p}
    ELSE (HalfUnits * i * total_p)..(HalfUnits * (i + 1) * total_p - 1)

\* an unpacking that accepts None
UnpackableMut(data) == TRUE

\* "states[i], ..., last[i] = data" raises TypeError when data is None
Unpackable(data) == data # None

\* PrioritizedReplayMemory.get(n_samples): the (idx, p, data) triples the
\* i-th call of self._tree.get can return
PER_draws(tree, data, max_size, n, i) ==
    UNION {SumTree_get(tree, data, max_size, t, HalfUnits * n) :
              t \in PER_samples(SumTree_total_p(tree), n, i)}

\* float64 values of the weight computation: a non-negative rational n/d,
\* inf or nan
Fin(n, d) == [k |-> "fin", n |-> n, d |-> d]
FInf == [k |-> "inf", n |-> 0, d |-> 0]
FNan == [k |-> "nan", n |-> 0, d |-> 0]

\* x / y for non-negative x, y (numpy: 0/0 is nan, x/0 is inf)
FDiv(x, y) ==
    IF x.k = "nan" \/ y.k = "nan" THEN FNan
    ELSE IF x.k = "inf" THEN (IF y.k = "inf" THEN FNan ELSE FInf)
    ELSE IF y.k = "inf" THEN Fin(0, 1)
    ELSE IF y.n = 0 THEN (IF x.n = 0 THEN FNan ELSE FInf)
    ELSE Fin(x.n * y.d, x.d * y.n)

\* x ** -b for a natural b (numpy: anything ** 0 is 1, 0 ** -b is inf)
FPowNeg(x, b) ==
    IF b = 0 THEN Fin(1, 1)
    ELSE IF x.k = "nan" THEN FNan
    ELSE IF x.k = "inf" THEN Fin(0, 1)
    ELSE IF x.n = 0 THEN FInf
    ELSE Fin(Pow(x.d, b), Pow(x.n, b))

\* x <= y for values that are not nan
FLeq(x, y) ==
    IF y.k = "inf" THEN TRUE
    ELSE IF x.k = "inf" THEN FALSE
    ELSE x.n * y.d <= y.n * x.d

\* is_weight.max(): nan if any entry is nan
FMax(w) ==
    IF \E j \in DOMAIN w : w[j].k = "nan" THEN FNan
    ELSE LET j == CHOOSE j \in DOMAIN w : \A i \in DOMAIN w : FLeq(w[i], w[j])
         IN  w[j]

\* the importance weights of PrioritizedReplayMemory.get:
\* (size * priorities / total_p) ** -beta(), divided by their maximum
PER_is_weight(priorities, total_p, size, beta) ==
    LET sampling_probabilities ==
            [j \in DOMAIN priorities |->
                FDiv(Fin(priorities[j], 1), Fin(total_p, 1))]
        is_weight ==
            [j \in DOMAIN priorities |->
                FPowNeg(LET q == sampling_probabilities[j]
                        IN  IF q.k = "fin" THEN Fin(size * q.n, q.d) ELSE q,
                        beta)]
        m == FMax(is_weight)
    IN  [j \in DOMAIN priorities |-> FDiv(is_weight[j], m)]

PERAdd == TreeAdd("per_add", FALSE, {1})

PERGet ==
    /\ \E n \in 1..MaxN, beta \in 0..MaxBeta :
         \E draws \in {[j \in 1..n |-> PER_draws(st_tree, st_data,
                                                st_max_size, n, j - 1)]} :
         \E picks \in [1..n -> UNION {draws[j] : j \in 1..n}] :
            /\ \A j \in 1..n : picks[j] \in draws[j]
            /\ IF \A j \in 1..n : Unpackable(picks[j][3])
               THEN /\ op' = Call("per_get", <<n, beta>>, "none",
                          <<[j \in 1..n |-> picks[j][1]],
                            PER_is_weight([j \in 1..n |-> picks[j][2]],
                               SumTree_total_p(st_tree),
                               SumTree_size(st_idx, st_full, st_max_size),
                               beta),
                            [j \in 1..n |-> picks[j][2]]>>)
                    /\ per_batch' = [j \in 1..n |-> picks[j][1]]
               ELSE /\ op' = Call("per_get", <<n, beta>>, "TypeError", <<>>)
                    /\ per_batch' = per_batch
    /\ UNCHANGED <<st_vars, rm_vars, per_initial_size, per_alpha, per_epsilon>>

\* a readiness test with >= in place of >
PER_initializedMut(size, initial_size) == size >= initial_size

\* PrioritizedReplayMemory.initialized
PER_initialized(size, initial_size) == size > initial_size

\* PrioritizedReplayMemory.max_priority
PER_max_priority(tree, idx, full, max_size, initial_size) ==
    IF PER_initialized(SumTree_size(idx, full, max_size), initial_size)
    THEN SumTree_max_p(tree, max_size)
    ELSE 1

\* reading the property max_priority
PERMaxPriority ==
    /\ op' = Call("per_max_priority", <<>>, "none",
                  PER_max_priority(st_tree, st_idx, st_full, st_max_size,
                                   per_initial_size))
    /\ UNCHANGED <<st_vars, rm_vars, per_vars>>

\* the producer of the interface contract: add(dataset, p) with p made of
\* max_priority, read before the call, once per record
PERAddMax ==
    /\ \E n \in 1..MaxBatch :
         /\ st_k + n <= MaxAdds
         /\ \E dataset \in [1..n -> {1}] :
              \E priority \in {[j \in 1..n |->
                      PER_max_priority(st_tree, st_idx, st_full, st_max_size,
                                       per_initial_size)]} :
              \E T \in {SumTree_add(ST_self, dataset, priority, st_max_size)} :
                  /\ ST_assign(T)
                  /\ st_k' = st_k + n
                  /\ st_hist' = st_hist \o [j \in 1..n |->
                                              <<dataset[j], priority[j]>>]
                  /\ op' = Call("per_add_max", <<dataset, priority>>, T.err,
                                <<>>)
    /\ UNCHANGED <<st_max_size, rm_vars, per_vars>>

\* PrioritizedReplayMemory.update(error, idx) with idx taken from the
\* indices returned by the most recent get that returned a batch
PERUpdate ==
    /\ per_batch # <<>>
    /\ \E n \in 1..MaxIdx :
         \E idx \in [1..n -> {per_batch[j] : j \in DOMAIN per_batch}],
            error \in [1..n -> (-MaxErr)..MaxErr] :
              \E T \in {SumTree_update(ST_self, idx,
                          PER_get_priority(error, per_epsilon, per_alpha),
                          st_max_size)} :
                  /\ ST_assign(T)
                  /\ op' = Call("per_update", <<idx>>, T.err, <<>>)
    /\ UNCHANGED <<st_max_size, st_hist, st_k, rm_vars, per_vars>>

\* ====================================================== specifications ==

RM_pinned == rm_initial_size = 0 /\ rm_max_size = 1 /\ RM_init_fields
ST_pinned == st_max_size = 2 /\ ST_init_fields
PER_pinned ==
    /\ per_initial_size = 0
    /\ per_alpha = 1
    /\ per_epsilon = Epsilon
    /\ per_batch = <<>>

\* the uniform buffer
InitRM ==
    /\ rm_initial_size = 0
    /\ rm_max_size \in 1..MaxCap
    /\ RM_init_fields
    /\ ST_pinned /\ PER_pinned
    /\ op = NoCall
NextRM == RMAdd \/ RMGet \/ RMReset
SpecRM == InitRM /\ [][NextRM]_vars

\* the sum tree called with leaf indices and non-negative priorities
InitTree ==
    /\ st_max_size \in 2..MaxCap
    /\ ST_init_fields
    /\ RM_pinned /\ PER_pinned
    /\ op = NoCall
NextTree == STAdd \/ STUpdate \/ STGet
SpecTree == InitTree /\ [][NextTree]_vars

\* the sum tree filled by add only, every add logged in st_hist
NextAdd == STAddLogged \/ STGet
SpecAdd == InitTree /\ [][NextAdd]_vars

\* the prioritized buffer used through its own interface
InitPER ==
    /\ st_max_size \in 2..MaxCap
    /\ ST_init_fields
    /\ per_initial_size = 0
    /\ per_alpha \in 1..MaxAlpha
    /\ per_epsilon = Epsilon
    /\ per_batch = <<>>
    /\ RM_pinned
    /\ op = NoCall
NextPER == PERAdd \/ PERGet \/ PERUpdate
SpecPER == InitPER /\ [][NextPER]_vars

\* the sum tree filled by add and updated with an index outside the leaves
NextAny == STAdd \/ STUpdateBad \/ STGet
SpecAny == InitTree /\ [][NextAny]_vars

\* PrioritizedReplayMemory.reset(): the class defines no such method
PERReset ==
    /\ op' = Call("per_reset", <<>>, "AttributeError", <<>>)
    /\ UNCHANGED <<st_vars, rm_vars, per_vars>>

\* callers that also pass negative priorities
STAddSigned == TreeAddOf("st_add", FALSE, {1}, (-1)..MaxP)
PERAddSigned == TreeAddOf("per_add", FALSE, {1}, (-1)..MaxP)
STUpdateSigned ==
    /\ \E i \in Leaves(st_max_size), p \in (-1)..MaxNewP :
         \E T \in {SumTree_update(ST_self, <<i>>, <<p>>, st_max_size)} :
             /\ ST_assign(T)
             /\ op' = Call("st_update", <<(<<i>>), <<p>>>>, T.err, <<>>)
    /\ UNCHANGED <<st_max_size, st_hist, st_k, rm_vars, per_vars>>
NextSigned == STAddSigned \/ PERAddSigned \/ STUpdateSigned
SpecSigned == InitTree /\ [][NextSigned]_vars

\* the tree at every capacity from 1, where the single leaf is the root
InitCap ==
    /\ st_max_size \in 1..MaxCap
    /\ ST_init_fields
    /\ RM_pinned /\ PER_pinned
    /\ op = NoCall
NextCap == STAdd
SpecCap == InitCap /\ [][NextCap]_vars

\* one buffer of either variant: the caller owns a single buffer, the one
\* its first call addresses
RMCalls == {"none", "rm_add", "rm_get", "rm_reset"}
PERCalls == {"none", "per_add", "per_get", "per_update", "per_reset",
             "st_get"}
InitEither ==
    /\ \/ /\ rm_initial_size \in 0..MaxInit
          /\ rm_max_size \in 1..MaxCap
          /\ RM_init_fields
          /\ ST_pinned /\ PER_pinned
       \/ /\ ST_pinned
          /\ per_initial_size \in 0..MaxInit
          /\ per_alpha = 1
          /\ per_epsilon = Epsilon
          /\ per_batch = <<>>
          /\ RM_pinned
    /\ op = NoCall
NextEither ==
    \/ op.name \in RMCalls /\ (RMAdd \/ RMGet \/ RMReset)
    \/ op.name \in PERCalls
          /\ (PERAdd \/ PERGet \/ PERUpdate \/ PERReset \/ STGet)
SpecEither == InitEither /\ [][NextEither]_vars

\* the prioritized buffer filled by a producer that passes max_priority
\* (logged in st_hist) or priorities of its own (not logged)
InitMaxP ==
    /\ st_max_size \in 2..MaxCap
    /\ ST_init_fields
    /\ per_initial_size \in 0..MaxInit
    /\ per_alpha = 1
    /\ per_epsilon = Epsilon
    /\ per_batch = <<>>
    /\ RM_pinned
    /\ op = NoCall
NextMaxP == PERAdd \/ PERAddMax \/ PERMaxPriority
SpecMaxP == InitMaxP /\ [][NextMaxP]_vars

Init ==
    /\ rm_initial_size \in 0..MaxInit
    /\ rm_max_size \in 1..MaxCap
    /\ RM_init_fields
    /\ st_max_size \in 1..MaxCap
    /\ ST_init_fields
    /\ per_initial_size \in 0..MaxInit
    /\ per_alpha \in 1..MaxAlpha
    /\ per_epsilon = Epsilon
    /\ per_batch = <<>>
    /\ op = NoCall
Next ==
    NextRM \/ NextTree \/ NextAdd \/ NextAny \/ NextPER \/ NextMaxP
      \/ PERReset \/ NextSigned
Spec == Init /\ [][Next]_vars

\* ============================================================== claims ==

\* C1: after any sequence of SumTree.add and SumTree.update calls with leaf
\* indices (the same leaf possibly several times in one list) and
\* non-negative priorities, every internal node holds the sum of its two
\* children and total_p is the sum of the leaf priorities.
C1_SumInvariant == SumInvariant(st_tree, st_max_size)

\* an update whose index list names the same leaf twice has run on a tree
\* holding priority mass
C1_Witness ==
    /\ op.name = "st_update"
    /\ Len(op.arg[1]) >= 2
    /\ op.arg[1][1] = op.arg[1][2]
    /\ op.arg[2][1] # op.arg[2][2]
    /\ SumTree_total_p(st_tree) > 1

\* the slots written so far
Written == {i \in 0..(st_max_size - 1) : st_data[i] # None}

\* C2: on a tree holding a record with positive priority, SumTree.get(s)
\* with s in [0, total_p) returns a leaf index whose data slot holds a
\* written record.
C2_GetReturnsWrittenRecord ==
    (/\ op.name = "st_get"
     /\ \E i \in Written : st_tree[LeafOfSlot(i, st_max_size)] > 0)
    => /\ op.out[1] \in Leaves(st_max_size)
       /\ st_data[SlotOfLeaf(op.out[1], st_max_size)] # None
       /\ op.out[3] # None

\* C3: after k records have been passed to ReplayMemory.add, all k have
\* been added, size = min(k, C) and full = (k >= C), also for k > C.
C3_RingInvariant ==
    LET k == Len(rm_hist)
    IN  /\ rm_added = k
        /\ RM_size(rm_idx, rm_full, rm_max_size) = Min(k, rm_max_size)
        /\ rm_full = (k >= rm_max_size)

\* the last n elements of a sequence
LastOf(q, n) == SubSeq(q, Len(q) - n + 1, Len(q))

\* C4: ReplayMemory.add always completes, and afterwards the buffer holds
\* exactly the most recent capacity records.
C4_AddCompletes ==
    /\ rm_pc = "idle"
    /\ \A f \in Fields :
          rm_queue[f] = [j \in 1..Min(Len(rm_hist), rm_max_size) |->
                           FieldOf(LastOf(rm_hist,
                                     Min(Len(rm_hist), rm_max_size))[j], f)]

\* C5: after k adds and no update, the j-th record (for the last
\* min(k, C) values of j) sits in slot (j-1) mod C with its priority in the
\* aligned leaf, and total_p is the sum of those priorities.
C5_AddPlacement ==
    LET k == Len(st_hist)
        C == st_max_size
        live == {j \in 1..k : j > k - C}
        prio == [j \in 1..k |-> st_hist[j][2]]
    IN  /\ \A j \in live :
              /\ st_data[(j - 1) % C] = st_hist[j][1]
              /\ st_tree[C - 1 + ((j - 1) % C)] = st_hist[j][2]
        /\ SumTree_total_p(st_tree)
             = SumRange(prio, IF k > C THEN k - C + 1 ELSE 1, k)

\* more records than slots were added, and the last one replaced a
\* different record with a different priority
C5_Witness ==
    LET k == Len(st_hist)
    IN  /\ k > st_max_size
        /\ st_hist[k][1] # st_hist[k - st_max_size][1]
        /\ st_hist[k][2] # st_hist[k - st_max_size][2]
        /\ st_hist[k][2] > 0

\* C6: after k records added to the SumTree, interleaved with update and
\* get calls, size = min(k, C), full = (k >= C) and the cursor is k mod C.
C6_TreeCursor ==
    /\ SumTree_size(st_idx, st_full, st_max_size) = Min(st_k, st_max_size)
    /\ st_full = (st_k >= st_max_size)
    /\ st_idx = st_k % st_max_size

\* the tree has wrapped, and an update came after
C6_Witness ==
    /\ st_k > st_max_size
    /\ op.name = "st_update"

\* C7: in the prioritized buffer, with update only passed indices of the
\* most recent returned batch, every never-written leaf of a tree that is
\* not full holds priority 0 and its data slot is empty.
C7_UnwrittenLeavesZero ==
    ~st_full =>
       \A i \in st_idx..(st_max_size - 1) :
          /\ st_tree[LeafOfSlot(i, st_max_size)] = 0
          /\ st_data[i] = None

\* an update has run on a partially filled tree
C7_Witness ==
    /\ op.name = "per_update"
    /\ ~st_full
    /\ st_idx > 0
    /\ st_idx < st_max_size - 1

\* C8: PrioritizedReplayMemory.get(n) with n greater than size fails and
\* returns no batch.
C8_GetTooManyFails ==
    (/\ op.name = "per_get"
     /\ op.arg[1] > SumTree_size(st_idx, st_full, st_max_size))
    => op.err # "none"

\* C9: ReplayMemory.get(n) with 1 <= n <= size returns six sequences of
\* length n read at n pairwise distinct positions in [0, size), the j-th
\* element of each from the same slot; with n > size it fails.
C9_UniformGet ==
    op.name = "rm_get" =>
       LET n == op.arg[1]
           size == RM_size(rm_idx, rm_full, rm_max_size)
       IN  IF n <= size
           THEN /\ op.err = "none"
                /\ LET d == op.out[1]
                       g == op.out[2]
                   IN  /\ Len(d) = n
                       /\ \A j \in 1..n : d[j] \in 0..(size - 1)
                       /\ \A i, j \in 1..n : i # j => d[i] # d[j]
                       /\ \A f \in Fields :
                             /\ Len(g[f]) = n
                             /\ \A j \in 1..n :
                                   g[f][j] = FieldOf(rm_hist[d[j] + 1], f)
           ELSE /\ op.err # "none"
                /\ op.out = <<>>

\* a batch of two was returned from a buffer holding different records
C9_Witness ==
    /\ op.name = "rm_get"
    /\ op.err = "none"
    /\ op.arg[1] = 2
    /\ op.out[2][1][1] # op.out[2][1][2]

\* C10: SumTree.update with an index outside the leaf range is rejected and
\* leaves the tree array unchanged.
C10_BadIndexRejected ==
    [][(/\ op'.name = "st_update"
        /\ op'.arg[1][1] \notin Leaves(st_max_size))
       => (op'.err # "none" /\ st_tree' = st_tree)]_vars

\* C11: in any batch returned by PrioritizedReplayMemory.get the largest
\* importance weight is exactly 1, every weight lies in (0, 1], a sampled
\* record of smallest priority has weight 1 and a record of larger priority
\* never has a larger weight.
C11_WeightsNormalized ==
    (op.name = "per_get" /\ op.err = "none") =>
       LET w == op.out[2]
           p == op.out[3]
       IN  /\ \A j \in DOMAIN w :
                 /\ w[j].k = "fin"
                 /\ 0 < w[j].n
                 /\ w[j].n <= w[j].d
           /\ \E j \in DOMAIN w : w[j].k = "fin" /\ w[j].n = w[j].d
           /\ \A j \in DOMAIN w :
                 (\A i \in DOMAIN w : p[j] <= p[i])
                    => (w[j].k = "fin" /\ w[j].n = w[j].d)
           /\ \A i, j \in DOMAIN w :
                 p[i] < p[j] => (w[i].k # "nan" /\ w[j].k # "nan"
                                 /\ FLeq(w[j], w[i]))

\* C12: when total_p > 0, SumTree.get(s) with s in [0, total_p) never
\* returns a leaf whose priority is 0 (in particular not a written leaf that
\* update has set to 0).
C12_ZeroLeafNeverReturned ==
    (op.name = "st_get" /\ SumTree_total_p(st_tree) > 0) => op.out[2] > 0

\* the leaves below node idx of a tree of n nodes, from left to right
RECURSIVE LeavesUnder(_, _)
LeavesUnder(idx, n) ==
    IF 2 * idx + 1 >= n THEN <<idx>>
    ELSE LeavesUnder(2 * idx + 1, n) \o LeavesUnder(2 * idx + 2, n)

\* the sum of the priorities of the leaves left of leaf L
PriorityBefore(tree, n, L) ==
    LET order == LeavesUnder(0, n)
        pos == CHOOSE j \in DOMAIN order : order[j] = L
    IN  SumRange([j \in DOMAIN order |-> tree[order[j]]], 1, pos - 1)

\* whether the descent for s = t / scale from node idx meets a node whose
\* two children hold equal sums
RECURSIVE PathHasTie(_, _, _, _, _)
PathHasTie(tree, n, t, scale, idx) ==
    LET left  == 2 * idx + 1
        right == left + 1
    IN  IF left >= n THEN FALSE
        ELSE IF tree[left] = tree[right] THEN TRUE
        ELSE IF t <= scale * tree[left]
        THEN PathHasTie(tree, n, t, scale, left)
        ELSE PathHasTie(tree, n, t - scale * tree[left], scale, right)

\* C17: with non-negative leaves, total_p > 0 and no tie on the descent
\* path, SumTree.get(s) returns the leaf L with P <= s < P + priority(L),
\* P being the sum of the priorities of the leaves left of L, together with
\* tree[L] and the record of L's slot.
C17_CumulativeRange ==
    (/\ op.name = "st_get"
     /\ \A l \in Leaves(st_max_size) : st_tree[l] >= 0
     /\ SumTree_total_p(st_tree) > 0
     /\ ~PathHasTie(st_tree, TreeLen(st_max_size), op.arg[1], HalfUnits, 0))
    => LET L == op.out[1]
           P == PriorityBefore(st_tree, TreeLen(st_max_size), L)
       IN  /\ HalfUnits * P <= op.arg[1]
           /\ op.arg[1] < HalfUnits * (P + st_tree[L])
           /\ op.out[2] = st_tree[L]
           /\ op.out[3] = st_data[L - (st_max_size - 1)]

\* the nodes of the subtree rooted at node a
RECURSIVE Subtree(_, _)
Subtree(a, n) ==
    IF 2 * a + 1 >= n THEN {a}
    ELSE {a} \cup Subtree(2 * a + 1, n) \cup Subtree(2 * a + 2, n)

\* C18: SumTree.update([i], [p]) on a leaf i sets tree[i] to p, adds
\* p - old tree[i] once to every proper ancestor of i, and changes no other
\* tree entry, no record, nor the cursor or the full flag.
C18_UpdateFrame ==
    [][(op'.name = "st_update" /\ Len(op'.arg[1]) = 1)
       => LET i == op'.arg[1][1]
              p == op'.arg[2][1]
          IN  /\ \A j \in DOMAIN st_tree :
                    st_tree'[j] =
                       IF j = i THEN p
                       ELSE IF i \in Subtree(j, TreeLen(st_max_size))
                       THEN st_tree[j] + (p - st_tree[i])
                       ELSE st_tree[j]
              /\ UNCHANGED <<st_data, st_idx, st_full>>]_vars

\* a single leaf two levels below the root was updated to a positive
\* priority in a tree holding other priority mass
C18_Witness ==
    /\ op.name = "st_update"
    /\ Len(op.arg[1]) = 1
    /\ ParentIdx(op.arg[1][1]) # 0
    /\ op.arg[2][1] > 0
    /\ st_tree[op.arg[1][1]] = op.arg[2][1]
    /\ SumTree_total_p(st_tree) > op.arg[2][1]

RMReady == RM_initialized(RM_size(rm_idx, rm_full, rm_max_size),
                          rm_initial_size)
PERReady == PER_initialized(SumTree_size(st_idx, st_full, st_max_size),
                            per_initial_size)

\* C14: for both variants initialized is true exactly when more than
\* initial_size records are stored (false with exactly initial_size), and
\* once true it stays true under add, get and update until reset.
C14_Stored ==
    /\ RMReady <=> Min(rm_added, rm_max_size) > rm_initial_size
    /\ PERReady <=> Min(st_k, st_max_size) > per_initial_size
C14_Initialized ==
    /\ C14_Stored
    /\ [][/\ C14_Stored'
          /\ (RMReady /\ op'.name # "rm_reset") => RMReady'
          /\ (PERReady /\ op'.name # "per_reset") => PERReady']_vars

\* the prioritized buffer is initialized with a threshold of at least one
\* record, and an update has run since
C14_Witness ==
    /\ op.name = "per_update"
    /\ per_initial_size > 0
    /\ PERReady

\* C15: reset() on either variant completes and leaves size 0, full false,
\* initialized false and all storage as after construction.
C15_ResetToFresh ==
    /\ op.name = "rm_reset" =>
          /\ op.err = "none"
          /\ rm_idx = 0 /\ ~rm_full /\ ~RMReady
          /\ rm_queue = [f \in Fields |-> <<>>]
    /\ op.name = "per_reset" =>
          /\ op.err = "none"
          /\ st_idx = 0 /\ ~st_full /\ ~PERReady
          /\ st_tree = SumTree_new(st_max_size).tree
          /\ st_data = SumTree_new(st_max_size).data

\* C20: ReplayMemory.get, SumTree.get and PrioritizedReplayMemory.get,
\* whether they return or raise, leave the cursor, the full flag, the stored
\* records and the tree unchanged, hence size, total_p and max_p too.
C20_GetReadOnly ==
    [][op'.name \in {"rm_get", "st_get", "per_get"}
       => /\ UNCHANGED <<rm_idx, rm_full, rm_queue>>
          /\ UNCHANGED <<st_tree, st_data, st_idx, st_full>>
          /\ RM_size(rm_idx', rm_full', rm_max_size)
               = RM_size(rm_idx, rm_full, rm_max_size)
          /\ SumTree_total_p(st_tree') = SumTree_total_p(st_tree)
          /\ SumTree_max_p(st_tree', st_max_size)
               = SumTree_max_p(st_tree, st_max_size)]_vars

\* a uniform get returned a batch of two from a full buffer
C20_Witness ==
    /\ op.name = "rm_get"
    /\ op.err = "none"
    /\ op.arg[1] = 2
    /\ rm_full

\* C16: a negative priority passed to SumTree.add, SumTree.update or
\* PrioritizedReplayMemory.add is rejected, and every tree node, leaf or
\* internal, is >= 0 in every reachable state.
C16_NegativeRejected ==
    /\ \A i \in DOMAIN st_tree : st_tree[i] >= 0
    /\ op.name \in {"st_add", "per_add", "st_update"} =>
          ((\E j \in DOMAIN op.arg[2] : op.arg[2][j] < 0)
              => op.err # "none")

\* C19: for every capacity from 1, SumTree.add terminates without an
\* exception and leaves total_p equal to the sum of the leaf priorities.
C19_AddTerminates ==
    op.name = "st_add" =>
        /\ op.err = "none"
        /\ SumTree_total_p(st_tree)
             = SumRange(st_tree, st_max_size - 1, 2 * st_max_size - 2)

====
